---- MODULE Spec2Model ----
(***************************************************************************)
(* A model of grammax: the hash-consed green tree arena (tree.rs), the     *)
(* grammar normalizer, nullability pass and decidability check             *)
(* (grammar.rs), the matcher primitives (words.rs) and the edit driver     *)
(* (parser.rs).  Each subsystem has its own specification over the shared  *)
(* variables; the variables of the other subsystems stay at their initial  *)
(* values.  Indices are Rust's (0-based); a Vec v is a TLA+ sequence whose *)
(* element i is v[i + 1].                                                  *)
(***************************************************************************)
EXTENDS Integers, Sequences, FiniteSets, TLC

VARIABLES
    \* tree.rs: TreeAlloc and its callers
    nodes,      \* TreeAlloc.nodes: Vec<GreenNode>
    dedup,      \* TreeAlloc.dedup: hash -> Vec<usize>
    pc,         \* per caller: where it is inside alloc
    arg,        \* per caller: the GreenNode built at line 68
    borrow,     \* the caller holding the exclusive borrow (&mut self), 0 if none
    ret,        \* per caller: the last [node, id] alloc returned to it
    calls,      \* per caller: the calls it may still make
    returned,   \* history: every [node, id] alloc has returned
    \* words.rs: one matcher applied to one State
    matcher,    \* the matcher (self)
    input,      \* State.input
    position,   \* State.position
    start,      \* history: State.position when matches was called
    mres,       \* what matches returned: "none" before the call
    \* parser.rs: Parser and its edit channel
    text,       \* ParserState.text
    connected,  \* whether a Sender of the edit channel is still alive
    edit,       \* the Edit the last receive_edits call received
    prev,       \* history: the text when the last receive_edits call began
    outcome,    \* how the last receive_edits call ended: "none" before the first
    \* grammar.rs: one call of Grammar::new
    defs,       \* per rule handle (fn() -> GrammarNode): what the function returns
    root,       \* the GrammarNode given to Grammar::new
    rules,      \* Grammar.rules
    tags,       \* Grammar.tags
    gnodes,     \* Grammar.nodes: NoNodes or [some |-> node]
    rule_map,   \* normalize: rule_map, -1 for a handle that has no entry
    stack,      \* normalize: stack, the handles being expanded
    work,       \* helper: the calls and continuations pending, innermost last
    vals,       \* helper: the values returned to the pending continuations
    phase,      \* where Grammar::new is
    nullable,   \* undecidable_rule: nullable
    changed,    \* undecidable_rule: changed
    passes,     \* history: the passes of the while loop made
    ci,         \* undecidable_rule: i of the cycle detection loop
    visited,    \* undecidable_rule: visited
    dfs_stack,  \* undecidable_rule: stack
    result,     \* what Grammar::new returned
    refLog,     \* history: every Reference normalized, with the index it got
    sugarLog,   \* history: every Many and Some normalized, with its result
    invoked,    \* history: per rule handle, how often its function was called
    \* the red overlay over an arena whose nodes carry widths
    wnodes,     \* the arena's nodes: [tag, width, children]
    ast,        \* ParserState.ast, the RedNode of the traversal
    path,       \* history: the child indices descended from the root
    from        \* history: the RedNode the last descent started from

arenaVars == <<nodes, dedup, pc, arg, borrow, ret, calls, returned>>

matchVars == <<matcher, input, position, start, mres>>

parserVars == <<text, connected, edit, prev, outcome>>

grammarVars ==
    <<defs, root, rules, tags, gnodes, rule_map, stack, work, vals, phase,
      nullable, changed, passes, ci, visited, dfs_stack, result, refLog,
      sugarLog, invoked>>

redVars == <<wnodes, ast, path, from>>

vars == <<arenaVars, matchVars, parserVars, grammarVars, redVars>>

\* What a step of one subsystem leaves alone.
ArenaOnly == UNCHANGED <<matchVars, parserVars, grammarVars, redVars>>

MatchOnly == UNCHANGED <<arenaVars, parserVars, grammarVars, redVars>>

ParserOnly == UNCHANGED <<arenaVars, matchVars, grammarVars, redVars>>

GrammarOnly == UNCHANGED <<arenaVars, matchVars, parserVars, redVars>>

RedOnly == UNCHANGED <<arenaVars, matchVars, parserVars, grammarVars>>

----------------------------------------------------------------------------
(* Bounds *)

\* The callers of the concurrent specification, one call each.
NumThreads == 3

\* The calls the single caller of the sequential specification makes.
MaxSeqCalls == 4

\* The number of hash buckets: the hash is a lossy function of the content.
NumBuckets == 2

\* The longest input a matcher is applied to.
MaxInputLen == 2

\* The largest number a Repeat range names.
MaxRep == 1

\* The longest text buffer of the edit driver.
MaxTextLen == 2

\* The rule functions a grammar is written with.
NumRules == 2

\* The children of a stored tree node.
MaxKids == 3

Threads == 1..NumThreads

\* rule_id values submitted.
Tags == {0, 1}

NoNode == [rule_id |-> -1, children |-> <<>>]

\* fresh: whether the call stored the node (FALSE: a dedup hit).
NoRet == [node |-> NoNode, id |-> -1, fresh |-> FALSE]

----------------------------------------------------------------------------
(* tree.rs *)

GreenNode(rule_id, children) == [rule_id |-> rule_id, children |-> children]

\* The child lists a caller may submit: ids of nodes already stored.
ChildLists ==
    LET ids == 0..(Len(nodes) - 1)
    IN  {<<>>} \cup {<<i>> : i \in ids} \cup {<<i, j>> : i \in ids, j \in ids}

RECURSIVE SumSeq(_)
SumSeq(s) == IF s = <<>> THEN 0 ELSE Head(s) + SumSeq(Tail(s))

\* node.hash(&mut hasher); hasher.finish(): a deterministic function of the
\* content (rule_id, children) that is not injective.
Hash(node) == (node.rule_id + SumSeq(node.children)) % NumBuckets

GetNode(id) == nodes[id + 1]

\* The scan of lines 74-80 over the bucket `indices`: the first index whose
\* stored node equals `node`, or -1 when the scan falls through.
RECURSIVE ScanBucket(_, _)
ScanTrustHash(indices, node) ==
    IF indices = <<>> THEN -1 ELSE Head(indices)

ScanBucket(indices, node) ==
    IF indices = <<>> THEN -1
    ELSE IF GetNode(Head(indices)) = node THEN Head(indices)
    ELSE ScanBucket(Tail(indices), node)

Lookup(node) == ScanBucket(dedup[Hash(node)], node)

\* alloc takes &mut self: a caller enters only while nobody else is inside.
SharedBorrow(t) == TRUE

CanBorrowMut(t) == borrow = 0

\* self.dedup.entry(hash).or_default().push(idx)
RegisterNothing(d, node, idx) == d

Register(d, node, idx) ==
    [d EXCEPT ![Hash(node)] = Append(@, idx)]

\* self.nodes.push(node)
PushFront(v, node) == <<node>> \o v

Push(v, node) == Append(v, node)

\* alloc, line 68: the caller builds the node and takes the borrow.
AllocCall(t) ==
    /\ pc[t] = "idle"
    /\ calls[t] > 0
    /\ CanBorrowMut(t)
    /\ \E rule_id \in Tags, children \in ChildLists :
          arg' = [arg EXCEPT ![t] = GreenNode(rule_id, children)]
    /\ pc' = [pc EXCEPT ![t] = "lookup"]
    /\ calls' = [calls EXCEPT ![t] = @ - 1]
    /\ borrow' = t
    /\ UNCHANGED <<nodes, dedup, ret, returned>>
    /\ ArenaOnly

\* alloc, lines 70-80: hash, bucket scan, early return on a hit.
AllocLookup(t) ==
    /\ pc[t] = "lookup"
    /\ LET idx == Lookup(arg[t])
       IN  IF idx >= 0
           THEN /\ ret' = [ret EXCEPT ![t] =
                              [node |-> arg[t], id |-> idx, fresh |-> FALSE]]
                /\ returned' = returned \cup {[node |-> arg[t], id |-> idx]}
                /\ pc' = [pc EXCEPT ![t] = "idle"]
                /\ borrow' = IF borrow = t THEN 0 ELSE borrow
           ELSE /\ pc' = [pc EXCEPT ![t] = "append"]
                /\ UNCHANGED <<ret, returned, borrow>>
    /\ UNCHANGED <<nodes, dedup, arg, calls>>
    /\ ArenaOnly

\* alloc, lines 82-85: append, register in the bucket, return the new index.
AllocAppend(t) ==
    /\ pc[t] = "append"
    /\ LET idx == Len(nodes)
       IN  /\ nodes' = Push(nodes, arg[t])
           /\ dedup' = Register(dedup, arg[t], idx)
           /\ ret' = [ret EXCEPT ![t] =
                         [node |-> arg[t], id |-> idx, fresh |-> TRUE]]
           /\ returned' = returned \cup {[node |-> arg[t], id |-> idx]}
    /\ pc' = [pc EXCEPT ![t] = "idle"]
    /\ borrow' = IF borrow = t THEN 0 ELSE borrow
    /\ UNCHANGED <<arg, calls>>
    /\ ArenaOnly

\* TreeAlloc::new, lines 56-61
ArenaNew ==
    /\ nodes = <<>>
    /\ dedup = [h \in 0..(NumBuckets - 1) |-> <<>>]
    /\ pc = [t \in Threads |-> "idle"]
    /\ arg = [t \in Threads |-> NoNode]
    /\ borrow = 0
    /\ ret = [t \in Threads |-> NoRet]
    /\ returned = {}

ArenaIdle ==
    /\ ArenaNew
    /\ calls = [t \in Threads |-> 0]

ArenaNext ==
    \E t \in Threads :
        \/ AllocCall(t)
        \/ AllocLookup(t)
        \/ AllocAppend(t)


----------------------------------------------------------------------------
(* words.rs *)

\* usize::MAX, the max of a Repeat whose range has no end.  It is only
\* compared with counts, never added to, so any number no count reaches
\* stands for it.
UsizeMax == 2147483647

\* The matchers: a closed set of variants.  A &str is the sequence of its
\* characters (one byte each).
Str(s) == [mk |-> "str", s |-> s]
Chr(c) == [mk |-> "char", c |-> c]
EndOfInput == [mk |-> "eoi"]
StartOfInput == [mk |-> "soi"]
Alternative(a, b) == [mk |-> "alt", a |-> a, b |-> b]
Sequence(a, b) == [mk |-> "seq", a |-> a, b |-> b]
Repeat(a, r) == [mk |-> "rep", a |-> a, r |-> r]

\* ops::Bound: Included(n), Excluded(n), Unbounded.
Included(n) == [b |-> "inc", n |-> n]
Excluded(n) == [b |-> "exc", n |-> n]
Unbounded == [b |-> "unb", n |-> 0]

\* Repeat::matches, lines 200-204, and Repeat::is_nullable, lines 229-233
RepeatMin(r) ==
    CASE r.lo.b = "inc" -> r.lo.n
      [] r.lo.b = "exc" -> r.lo.n + 1
      [] OTHER -> 0

\* Repeat::matches, lines 206-210; saturating_sub stops at 0
RepeatMax(r) ==
    CASE r.hi.b = "inc" -> r.hi.n
      [] r.hi.b = "exc" -> IF r.hi.n = 0 THEN 0 ELSE r.hi.n - 1
      [] OTHER -> UsizeMax

\* Matcher::is_nullable of every variant
RECURSIVE IsNullable(_)
IsNullableRepeatAlways(m) ==
    CASE m.mk = "str" -> Len(m.s) = 0
      [] m.mk = "char" -> FALSE
      [] m.mk = "eoi" -> TRUE
      [] m.mk = "soi" -> TRUE
      [] m.mk = "alt" -> IsNullable(m.a) \/ IsNullable(m.b)
      [] m.mk = "seq" -> IsNullable(m.a) /\ IsNullable(m.b)
      [] m.mk = "rep" -> TRUE

IsNullable(m) ==
    CASE m.mk = "str" -> Len(m.s) = 0
      [] m.mk = "char" -> FALSE
      [] m.mk = "eoi" -> TRUE
      [] m.mk = "soi" -> TRUE
      [] m.mk = "alt" -> IsNullable(m.a) \/ IsNullable(m.b)
      [] m.mk = "seq" -> IsNullable(m.a) /\ IsNullable(m.b)
      [] m.mk = "rep" -> RepeatMin(m.r) = 0 \/ IsNullable(m.a)

\* Matcher::matches of every variant on State {input: inp, position: pos}:
\* [ok |-> the value returned, position |-> State.position afterwards].
RECURSIVE Matches(_, _, _)
RECURSIVE RepeatLoop(_, _, _, _, _)

\* The while loop of Repeat::matches, lines 215-217, from `count` at `pos`.
\* A matcher is a function of the state, so an inner match that succeeds
\* without moving the position succeeds again on every later iteration: the
\* loop then ends with count = max at the same position.
RepeatLoop(a, inp, pos, count, max) ==
    IF count < max
    THEN LET r == Matches(a, inp, pos)
         IN  IF r.ok
             THEN IF r.position = pos
                  THEN [count |-> max, position |-> pos]
                  ELSE RepeatLoop(a, inp, r.position, count + 1, max)
             ELSE [count |-> count, position |-> r.position]
    ELSE [count |-> count, position |-> pos]

Matches(m, inp, pos) ==
    CASE m.mk = "str" ->
            LET end_pos == pos + Len(m.s)
            IN  IF end_pos <= Len(inp) /\ SubSeq(inp, pos + 1, end_pos) = m.s
                THEN [ok |-> TRUE, position |-> end_pos]
                ELSE [ok |-> FALSE, position |-> pos]
      [] m.mk = "char" ->
            IF pos < Len(inp) /\ inp[pos + 1] = m.c
            THEN [ok |-> TRUE, position |-> pos + 1]
            ELSE [ok |-> FALSE, position |-> pos]
      [] m.mk = "eoi" -> [ok |-> pos >= Len(inp), position |-> pos]
      [] m.mk = "soi" -> [ok |-> pos = 0, position |-> pos]
      [] m.mk = "alt" ->
            LET original_position == pos
                r0 == Matches(m.a, inp, pos)
            IN  IF r0.ok THEN r0 ELSE Matches(m.b, inp, original_position)
      [] m.mk = "seq" ->
            LET r0 == Matches(m.a, inp, pos)
            IN  IF r0.ok THEN Matches(m.b, inp, r0.position) ELSE r0
      [] m.mk = "rep" ->
            LET min == RepeatMin(m.r)
                max == RepeatMax(m.r)
                original_position == pos
                l == RepeatLoop(m.a, inp, pos, 0, max)
            IN  IF l.count >= min /\ l.count <= max
                THEN [ok |-> TRUE, position |-> l.position]
                ELSE [ok |-> FALSE, position |-> original_position]

\* The matchers applied: the primitives, and the combinators over them to
\* depth two.
Chars == {"a", "b"}

Prims ==
    {Str(<<>>), Str(<<"a">>), Str(<<"a", "b">>), Chr("a"), Chr("b"),
     EndOfInput, StartOfInput}

Bounds ==
    {Unbounded} \cup {Included(n) : n \in 0..MaxRep}
                \cup {Excluded(n) : n \in 0..MaxRep}

Ranges == {[lo |-> lo, hi |-> hi] : lo \in Bounds, hi \in Bounds}

Pairs(A, B) ==
    {Alternative(a, b) : a \in A, b \in B} \cup {Sequence(a, b) : a \in A, b \in B}

Repeats(A) == {Repeat(a, r) : a \in A, r \in Ranges}

Depth1 == Pairs(Prims, Prims)

Matchers ==
    Prims \cup Depth1 \cup Repeats(Prims) \cup Repeats(Depth1)
          \cup Pairs(Depth1, {Str(<<"a">>), Str(<<>>)})
          \cup Pairs({Str(<<"a">>), Str(<<>>)}, Depth1)
          \cup Pairs(Repeats({Str(<<"a">>), Str(<<>>)}), {Str(<<"b">>), EndOfInput})

Inputs == UNION {[1..n -> Chars] : n \in 0..MaxInputLen}

\* State { input, position } with a valid position, and a matcher.
MatchNew ==
    /\ matcher \in Matchers
    /\ input \in Inputs
    /\ position \in 0..Len(input)
    /\ start = position
    /\ mres = "none"

MatchIdle ==
    /\ matcher = EndOfInput
    /\ input = <<>>
    /\ position = 0
    /\ start = 0
    /\ mres = "none"

\* matcher.matches(&mut state)
MatchCall ==
    /\ mres = "none"
    /\ LET r == Matches(matcher, input, position)
       IN  /\ position' = r.position
           /\ mres' = IF r.ok THEN "true" ELSE "false"
    /\ UNCHANGED <<matcher, input, start>>
    /\ MatchOnly

----------------------------------------------------------------------------
(* grammar.rs: the grammars compiled *)

\* enum GrammarNode, lines 23-31.  A Reference holds the rule function (its
\* handle) and the name stringify! gives it.
GTerminal(m) == [g |-> "Terminal", m |-> m]
GChoice(cs) == [g |-> "Choice", cs |-> cs]
GSequence(cs) == [g |-> "Sequence", cs |-> cs]
GReference(rule) == [g |-> "Reference", rule |-> rule]
GOptional(x) == [g |-> "Optional", x |-> x]
GSome(x) == [g |-> "Some", x |-> x]
GMany(x) == [g |-> "Many", x |-> x]

\* enum _GrammarNode, lines 33-38, with the Mu(index) back-reference the
\* code builds.
NTerminal(m) == [n |-> "Terminal", m |-> m]
NChoice(cs) == [n |-> "Choice", cs |-> cs]
NSequence(cs) == [n |-> "Sequence", cs |-> cs]
TaggedShifted(idx, inner) == [n |-> "Tagged", idx |-> idx + 1, inner |-> inner]

Tagged(idx, inner) == [n |-> "Tagged", idx |-> idx, inner |-> inner]
Mu(idx) == [n |-> "Mu", idx |-> idx]

Handles == 1..NumRules

\* stringify!(f) of the rule function f
HandleName(h) == <<"A", "B", "C", "D", "E">>[h]

Unset == [g |-> "unset"]

NoName == "<None>"

\* Grammar.nodes: None
NoNodes == [none |-> TRUE]

Lit_a == GTerminal(Str(<<"a">>))

Epsilon == GTerminal(Str(<<>>))

Max(a, b) == IF a >= b THEN a ELSE b

\* The largest handle normalize has met so far.
MaxKnown == 
    LET known == {h \in Handles : rule_map[h] # -1}
    IN  IF known = {} THEN 0 ELSE CHOOSE h \in known : \A k \in known : k <= h

\* The bodies the function of rule h may return.  Handles are interchangeable
\* (a handle is a function address), so a body names the handles already met
\* or the next one not yet met.
Bodies(h) ==
    LET mk == Max(MaxKnown, h)
        upto(k) == {x \in Handles : x <= k + 1}
        R == {GReference(x) : x \in upto(mk)}
        A == {Lit_a, Epsilon} \cup R
    IN  A \cup {GTerminal(EndOfInput)}
          \cup {GChoice(<<r, Lit_a>>) : r \in R}
          \cup {GChoice(<<GSequence(<<Lit_a, r>>), Epsilon>>) : r \in R}
          \cup UNION {{GSequence(<<GReference(x), GReference(y)>>) :
                           y \in upto(Max(mk, x))} : x \in upto(mk)}
          \cup {GSequence(<<GOptional(Lit_a), r>>) : r \in R}
          \cup {GMany(x) : x \in A} \cup {GSome(x) : x \in A}
          \cup {GOptional(x) : x \in A}
          \cup {GMany(GSome(Lit_a)), GSome(GMany(Lit_a))}

\* The expressions given to Grammar::new.
Roots ==
    {GReference(1), GMany(GReference(1)),
     GChoice(<<GReference(1), GSome(Lit_a)>>)}

----------------------------------------------------------------------------
(* grammar.rs: normalize *)

Top == work[Len(work)]

Rest == SubSeq(work, 1, Len(work) - 1)

LastVal == vals[Len(vals)]

ButLastVal == SubSeq(vals, 1, Len(vals) - 1)

\* A call helper(g, .., parent_name) not yet begun.
Call(g, parent_name) == [op |-> "helper", g |-> g, parent_name |-> parent_name]

\* The calls of the children of a Choice or Sequence, the first innermost.
RECURSIVE ChildCalls(_, _)
ChildCalls(cs, parent_name) ==
    IF cs = <<>> THEN <<>>
    ELSE ChildCalls(Tail(cs), parent_name) \o <<Call(Head(cs), parent_name)>>

\* parent_name.unwrap_or("anonymous")
UnwrapOr(parent_name) == IF parent_name = NoName THEN "anonymous" ELSE parent_name

AtHelper(kind) ==
    /\ phase = "normalize"
    /\ work # <<>>
    /\ Top.op = "helper"
    /\ Top.g.g = kind

AtEnd(op) ==
    /\ phase = "normalize"
    /\ work # <<>>
    /\ Top.op = op

NormFrame ==
    /\ UNCHANGED <<root, gnodes, phase, nullable, changed, passes, ci, visited,
                   dfs_stack, result>>
    /\ GrammarOnly

\* helper, line 82
HelperTerminal ==
    /\ AtHelper("Terminal")
    /\ vals' = Append(vals, NTerminal(Top.g.m))
    /\ work' = Rest
    /\ UNCHANGED <<defs, rules, tags, rule_map, stack, refLog, sugarLog, invoked>>
    /\ NormFrame

\* helper, lines 83-96: the children are normalized left to right.
HelperChoiceSequence ==
    /\ AtHelper("Choice") \/ AtHelper("Sequence")
    /\ work' = Rest \o <<[op |-> "collect", kind |-> Top.g.g, n |-> Len(Top.g.cs)]>>
                    \o ChildCalls(Top.g.cs, Top.parent_name)
    /\ UNCHANGED <<defs, rules, tags, rule_map, stack, vals, refLog, sugarLog,
                   invoked>>
    /\ NormFrame

\* helper, lines 88 and 95: collect() and the node built from it.
Collect ==
    /\ AtEnd("collect")
    /\ LET n == Top.n
           cs == SubSeq(vals, Len(vals) - n + 1, Len(vals))
           node == IF Top.kind = "Choice" THEN NChoice(cs) ELSE NSequence(cs)
       IN  vals' = Append(SubSeq(vals, 1, Len(vals) - n), node)
    /\ work' = Rest
    /\ UNCHANGED <<defs, rules, tags, rule_map, stack, refLog, sugarLog, invoked>>
    /\ NormFrame

\* helper, lines 100-106: the rule is being expanded.
HelperReferenceOnStack ==
    /\ AtHelper("Reference")
    /\ Top.g.rule \in stack
    /\ LET rule_index == rule_map[Top.g.rule]
       IN  /\ vals' = Append(vals, Mu(rule_index))
           /\ refLog' = refLog \cup
                  {[rule |-> Top.g.rule, idx |-> rule_index, how |-> "on stack"]}
    /\ work' = Rest
    /\ UNCHANGED <<defs, rules, tags, rule_map, stack, sugarLog, invoked>>
    /\ NormFrame

\* helper, line 109: rule_map.get(&rule_ptr) is Some
NeverProcessed(rule) == FALSE

AlreadyProcessed(rule) == rule_map[rule] # -1

\* helper, lines 108-111: the rule has its slot already.
HelperReferenceProcessed ==
    /\ AtHelper("Reference")
    /\ Top.g.rule \notin stack
    /\ AlreadyProcessed(Top.g.rule)
    /\ LET rule_index == rule_map[Top.g.rule]
       IN  /\ vals' = Append(vals, Mu(rule_index))
           /\ refLog' = refLog \cup
                  {[rule |-> Top.g.rule, idx |-> rule_index, how |-> "processed"]}
    /\ work' = Rest
    /\ UNCHANGED <<defs, rules, tags, rule_map, stack, sugarLog, invoked>>
    /\ NormFrame

\* helper, lines 113-126: a slot is reserved, the handle recorded, and the
\* rule function called.
HelperReferenceNew ==
    /\ AtHelper("Reference")
    /\ Top.g.rule \notin stack
    /\ ~AlreadyProcessed(Top.g.rule)
    /\ LET rule == Top.g.rule
           name == HandleName(rule)
           rule_index == Len(rules)
       IN  /\ rule_map' = [rule_map EXCEPT ![rule] = rule_index]
           /\ tags' = Append(tags, name)
           /\ rules' = Append(rules, NTerminal(EndOfInput))
           /\ stack' = stack \cup {rule}
           /\ \E body \in (IF defs[rule] = Unset THEN Bodies(rule) ELSE {defs[rule]}) :
                 /\ defs' = [defs EXCEPT ![rule] = body]
                 /\ work' = Rest \o <<[op |-> "reference", rule |-> rule,
                                       rule_index |-> rule_index],
                                      Call(body, name)>>
           /\ invoked' = [invoked EXCEPT ![rule] = @ + 1]
           /\ refLog' = refLog \cup
                  {[rule |-> rule, idx |-> rule_index, how |-> "new"]}
    /\ UNCHANGED <<vals, sugarLog>>
    /\ NormFrame

\* helper, lines 128-135: the placeholder is overwritten.
ReferenceEnd ==
    /\ AtEnd("reference")
    /\ LET expanded == LastVal
           rule_index == Top.rule_index
       IN  /\ stack' = stack \ {Top.rule}
           /\ rules' = [rules EXCEPT ![rule_index + 1] = Tagged(rule_index, expanded)]
           /\ vals' = Append(ButLastVal, Mu(rule_index))
    /\ work' = Rest
    /\ UNCHANGED <<defs, tags, rule_map, refLog, sugarLog, invoked>>
    /\ NormFrame

\* helper, line 138
HelperOptional ==
    /\ AtHelper("Optional")
    /\ work' = Rest \o <<[op |-> "optional"], Call(Top.g.x, Top.parent_name)>>
    /\ UNCHANGED <<defs, rules, tags, rule_map, stack, vals, refLog, sugarLog,
                   invoked>>
    /\ NormFrame

\* helper, lines 139-140
OptionalEnd ==
    /\ AtEnd("optional")
    /\ LET inner_node == LastVal
           epsilon == NTerminal(Str(<<>>))
       IN  vals' = Append(ButLastVal, NChoice(<<inner_node, epsilon>>))
    /\ work' = Rest
    /\ UNCHANGED <<defs, rules, tags, rule_map, stack, refLog, sugarLog, invoked>>
    /\ NormFrame

\* helper, lines 143-150
HelperMany ==
    /\ AtHelper("Many")
    /\ LET rule_index == Len(rules)
           name == UnwrapOr(Top.parent_name)
           new_tag == "_" \o name
       IN  /\ tags' = Append(tags, new_tag)
           /\ rules' = Append(rules, NTerminal(EndOfInput))
           /\ work' = Rest \o <<[op |-> "many", rule_index |-> rule_index],
                                Call(Top.g.x, new_tag)>>
    /\ UNCHANGED <<defs, rule_map, stack, vals, refLog, sugarLog, invoked>>
    /\ NormFrame

\* helper, lines 153-155 and 183-185: the body of a repetition rule,
\* Choice[Sequence[element, Mu(rule)], ""].
ManyBodyNoEpsilon(element, recursive) == NSequence(<<element, recursive>>)

ManyBody(element, recursive) ==
    LET seq == NSequence(<<element, recursive>>)
        epsilon == NTerminal(Str(<<>>))
    IN  NChoice(<<seq, epsilon>>)

\* helper, lines 152-159
ManyEnd ==
    /\ AtEnd("many")
    /\ LET inner_node == LastVal
           rule_index == Top.rule_index
           recursive == Mu(rule_index)
           body == ManyBody(inner_node, recursive)
       IN  /\ rules' = [rules EXCEPT ![rule_index + 1] = Tagged(rule_index, body)]
           /\ vals' = Append(ButLastVal, Mu(rule_index))
           /\ sugarLog' = sugarLog \cup
                  {[kind |-> "Many", inner |-> inner_node, out |-> Mu(rule_index)]}
    /\ work' = Rest
    /\ UNCHANGED <<defs, tags, rule_map, stack, refLog, invoked>>
    /\ NormFrame

\* helper, lines 162-169
HelperSome ==
    /\ AtHelper("Some")
    /\ LET inner_rule_index == Len(rules)
           name == UnwrapOr(Top.parent_name)
           inner_tag == name \o "_some_elem"
       IN  /\ tags' = Append(tags, inner_tag)
           /\ rules' = Append(rules, NTerminal(EndOfInput))
           /\ work' = Rest \o <<[op |-> "some", inner_rule_index |-> inner_rule_index,
                                 name |-> name],
                                Call(Top.g.x, inner_tag)>>
    /\ UNCHANGED <<defs, rule_map, stack, vals, refLog, sugarLog, invoked>>
    /\ NormFrame

\* helper, lines 170-189
SomeEnd ==
    /\ AtEnd("some")
    /\ LET inner_node == LastVal
           inner_rule_index == Top.inner_rule_index
           rules1 == [rules EXCEPT ![inner_rule_index + 1] =
                          Tagged(inner_rule_index, inner_node)]
           inner_ref == Mu(inner_rule_index)
           many_rule_index == Len(rules1)
           many_tag == "_" \o Top.name
           rules2 == Append(rules1, NTerminal(EndOfInput))
           recursive == Mu(many_rule_index)
           inner_ref_for_many == Mu(inner_rule_index)
           body == ManyBody(inner_ref_for_many, recursive)
           out == NSequence(<<inner_ref, Mu(many_rule_index)>>)
       IN  /\ tags' = Append(tags, many_tag)
           /\ rules' = [rules2 EXCEPT ![many_rule_index + 1] =
                            Tagged(many_rule_index, body)]
           /\ vals' = Append(ButLastVal, out)
           /\ sugarLog' = sugarLog \cup
                  {[kind |-> "Some", inner |-> inner_node, out |-> out]}
    /\ work' = Rest
    /\ UNCHANGED <<defs, rule_map, stack, refLog, invoked>>
    /\ NormFrame

\* normalize, lines 194-202, and undecidable_rule, lines 206-208: helper
\* has returned to normalize, and the analysis begins.
NormalizeReturn ==
    /\ phase = "normalize"
    /\ work = <<>>
    /\ gnodes' = [some |-> vals[1]]
    /\ vals' = <<>>
    /\ phase' = "nullable"
    /\ nullable' = [i \in 1..Len(rules) |-> FALSE]
    /\ changed' = TRUE
    /\ UNCHANGED <<defs, root, rules, tags, rule_map, stack, work, passes, ci,
                   visited, dfs_stack, result, refLog, sugarLog, invoked>>
    /\ GrammarOnly

----------------------------------------------------------------------------
(* grammar.rs: undecidable_rule *)

\* Grammar::is_nullable, lines 235-243
RECURSIVE GrammarIsNullable(_, _)
GrammarIsNullable(node, nullable_rules) ==
    CASE node.n = "Terminal" -> IsNullable(node.m)
      [] node.n = "Choice" ->
            \E k \in 1..Len(node.cs) : GrammarIsNullable(node.cs[k], nullable_rules)
      [] node.n = "Sequence" ->
            \A k \in 1..Len(node.cs) : GrammarIsNullable(node.cs[k], nullable_rules)
      [] node.n = "Tagged" -> GrammarIsNullable(node.inner, nullable_rules)
      [] node.n = "Mu" -> nullable_rules[node.idx + 1]

\* One pass of the for loop of lines 213-220, from rule i on, updating the
\* flags in place.
RECURSIVE PassFrom(_, _)
PassFrom(i, flags) ==
    IF i >= Len(rules) THEN flags
    ELSE IF ~flags[i + 1] /\ GrammarIsNullable(rules[i + 1], flags)
         THEN PassFrom(i + 1, [flags EXCEPT ![i + 1] = TRUE])
         ELSE PassFrom(i + 1, flags)

\* changed, lines 212 and 217: whether the pass set a flag.
ChangedNever(old, new) == FALSE

ChangedAlways(old, new) == TRUE

Changed(old, new) == old # new

\* undecidable_rule, lines 211-221: one iteration of the while loop.
NullPass ==
    /\ phase = "nullable"
    /\ changed
    /\ nullable' = PassFrom(0, nullable)
    /\ changed' = Changed(nullable, nullable')
    /\ passes' = passes + 1
    /\ UNCHANGED <<defs, root, rules, tags, gnodes, rule_map, stack, work, vals,
                   phase, ci, visited, dfs_stack, result, refLog, sugarLog,
                   invoked>>
    /\ GrammarOnly

\* undecidable_rule, lines 211 and 224-225: the while loop ends.
NullDone ==
    /\ phase = "nullable"
    /\ ~changed
    /\ phase' = "cycle"
    /\ visited' = [i \in 1..Len(rules) |-> FALSE]
    /\ dfs_stack' = [i \in 1..Len(rules) |-> FALSE]
    /\ ci' = 0
    /\ UNCHANGED <<defs, root, rules, tags, gnodes, rule_map, stack, work, vals,
                   nullable, changed, passes, result, refLog, sugarLog, invoked>>
    /\ GrammarOnly

\* Grammar::get_non_consuming_calls, lines 273-296
RECURSIVE GetNonConsumingCalls(_, _)
RECURSIVE ChoiceCalls(_, _)
RECURSIVE SequenceCallsNoBreak(_, _)
RECURSIVE SequenceCalls(_, _)

ChoiceCallsNullableOnly(opts, nullable_rules) ==
    IF opts = <<>> THEN <<>>
    ELSE (IF GrammarIsNullable(Head(opts), nullable_rules)
          THEN GetNonConsumingCalls(Head(opts), nullable_rules)
          ELSE <<>>)
            \o ChoiceCalls(Tail(opts), nullable_rules)

\* lines 278-280
ChoiceCalls(opts, nullable_rules) ==
    IF opts = <<>> THEN <<>>
    ELSE GetNonConsumingCalls(Head(opts), nullable_rules)
            \o ChoiceCalls(Tail(opts), nullable_rules)

SequenceCallsNoBreak(seq, nullable_rules) ==
    IF seq = <<>> THEN <<>>
    ELSE GetNonConsumingCalls(Head(seq), nullable_rules)
            \o SequenceCallsNoBreak(Tail(seq), nullable_rules)

\* lines 283-288: stop after the first item that is not nullable.
SequenceCalls(seq, nullable_rules) ==
    IF seq = <<>> THEN <<>>
    ELSE GetNonConsumingCalls(Head(seq), nullable_rules)
            \o (IF ~GrammarIsNullable(Head(seq), nullable_rules)
                THEN <<>>
                ELSE SequenceCalls(Tail(seq), nullable_rules))

GetNonConsumingCalls(node, nullable_rules) ==
    CASE node.n = "Terminal" -> <<>>
      [] node.n = "Choice" -> ChoiceCalls(node.cs, nullable_rules)
      [] node.n = "Sequence" -> SequenceCalls(node.cs, nullable_rules)
      [] node.n = "Tagged" -> GetNonConsumingCalls(node.inner, nullable_rules)
      [] node.n = "Mu" -> <<node.idx>>

\* Grammar::find_cycle, lines 245-271:
\* [found |-> the value returned, visited, stack |-> the slices afterwards].
RECURSIVE FindCycle(_, _, _, _)
RECURSIVE FindCycleCalls(_, _, _, _)

\* lines 263-267: the for loop over the calls.
FindCycleCalls(targets, nullable_rules, vis, stk) ==
    IF targets = <<>> THEN [found |-> FALSE, visited |-> vis, stack |-> stk]
    ELSE LET r == FindCycle(Head(targets), nullable_rules, vis, stk)
         IN  IF r.found THEN r
             ELSE FindCycleCalls(Tail(targets), nullable_rules, r.visited, r.stack)

FindCycle(idx, nullable_rules, vis, stk) ==
    IF stk[idx + 1] THEN [found |-> TRUE, visited |-> vis, stack |-> stk]
    ELSE IF vis[idx + 1] THEN [found |-> FALSE, visited |-> vis, stack |-> stk]
    ELSE LET vis1 == [vis EXCEPT ![idx + 1] = TRUE]
             stk1 == [stk EXCEPT ![idx + 1] = TRUE]
             targets == GetNonConsumingCalls(rules[idx + 1], nullable_rules)
             r == FindCycleCalls(targets, nullable_rules, vis1, stk1)
         IN  IF r.found THEN r
             ELSE [found |-> FALSE, visited |-> r.visited,
                   stack |-> [r.stack EXCEPT ![idx + 1] = FALSE]]

\* Grammar::new, line 59: Ok(g)
Ok == [kind |-> "Ok",
       grammar |-> [nodes |-> gnodes, rules |-> rules, tags |-> tags]]

\* Grammar::new, line 56: Err(EvaluationError::UndecidableRule(name))
UndecidableRule(name) == [kind |-> "UndecidableRule", name |-> name]

Pending == [kind |-> "pending"]

\* undecidable_rule, lines 227-231, and Grammar::new, lines 55-57: one
\* iteration of the for loop.
CycleStep ==
    /\ phase = "cycle"
    /\ ci < Len(rules)
    /\ LET r == FindCycle(ci, nullable, visited, dfs_stack)
       IN  /\ visited' = r.visited
           /\ dfs_stack' = r.stack
           /\ IF r.found
              THEN /\ result' = UndecidableRule(tags[ci + 1])
                   /\ phase' = "done"
                   /\ ci' = ci
              ELSE /\ ci' = ci + 1
                   /\ UNCHANGED <<result, phase>>
    /\ UNCHANGED <<defs, root, rules, tags, gnodes, rule_map, stack, work, vals,
                   nullable, changed, passes, refLog, sugarLog, invoked>>
    /\ GrammarOnly

\* undecidable_rule, line 232, and Grammar::new, line 59
CycleNone ==
    /\ phase = "cycle"
    /\ ci = Len(rules)
    /\ result' = Ok
    /\ phase' = "done"
    /\ UNCHANGED <<defs, root, rules, tags, gnodes, rule_map, stack, work, vals,
                   nullable, changed, passes, ci, visited, dfs_stack, refLog,
                   sugarLog, invoked>>
    /\ GrammarOnly

\* Grammar::new, lines 48-53, and normalize, lines 69-70 and 194-201
GrammarNew ==
    /\ defs = [h \in Handles |-> Unset]
    /\ root \in Roots
    /\ rules = <<>>
    /\ tags = <<>>
    /\ gnodes = NoNodes
    /\ rule_map = [h \in Handles |-> -1]
    /\ stack = {}
    /\ work = <<Call(root, NoName)>>
    /\ vals = <<>>
    /\ phase = "normalize"
    /\ nullable = <<>>
    /\ changed = FALSE
    /\ passes = 0
    /\ ci = 0
    /\ visited = <<>>
    /\ dfs_stack = <<>>
    /\ result = Pending
    /\ refLog = {}
    /\ sugarLog = {}
    /\ invoked = [h \in Handles |-> 0]

\* No grammar is being compiled.
GrammarIdle ==
    /\ defs = [h \in Handles |-> Unset]
    /\ root = Unset
    /\ rules = <<>>
    /\ tags = <<>>
    /\ gnodes = NoNodes
    /\ rule_map = [h \in Handles |-> -1]
    /\ stack = {}
    /\ work = <<>>
    /\ vals = <<>>
    /\ phase = "idle"
    /\ nullable = <<>>
    /\ changed = FALSE
    /\ passes = 0
    /\ ci = 0
    /\ visited = <<>>
    /\ dfs_stack = <<>>
    /\ result = Pending
    /\ refLog = {}
    /\ sugarLog = {}
    /\ invoked = [h \in Handles |-> 0]

GrammarNext ==
    \/ HelperTerminal
    \/ HelperChoiceSequence
    \/ Collect
    \/ HelperReferenceOnStack
    \/ HelperReferenceProcessed
    \/ HelperReferenceNew
    \/ ReferenceEnd
    \/ HelperOptional
    \/ OptionalEnd
    \/ HelperMany
    \/ ManyEnd
    \/ HelperSome
    \/ SomeEnd
    \/ NormalizeReturn
    \/ NullPass
    \/ NullDone
    \/ CycleStep
    \/ CycleNone
----------------------------------------------------------------------------
(* parser.rs *)

Span(s, e) == [start |-> s, end |-> e]

\* enum Edit, lines 11-15
Update(span, new_text) == [e |-> "Update", span |-> span, new_text |-> new_text]
Insert(pos, new_text) == [e |-> "Insert", position |-> pos, new_text |-> new_text]
Delete(span) == [e |-> "Delete", span |-> span]

NoEdit == [e |-> "none"]

\* The edits a sender may send: spans and positions inside and outside the
\* buffer, spans with start > end included.
Positions == 0..(MaxTextLen + 1)

NewTexts == {<<>>, <<"x">>, <<"y">>}

Spans == {Span(s, e) : s \in Positions, e \in Positions}

Edits ==
    {Update(sp, nt) : sp \in Spans, nt \in NewTexts}
        \cup {Insert(p, nt) : p \in Positions, nt \in NewTexts}
        \cup {Delete(sp) : sp \in Spans}

\* Parser::is_valid_span, lines 103-116: Ok iff span.end <= text.len()
IsValidSpan(span) == span.end <= Len(text)

\* Parser::is_valid_position, lines 118-131
IsValidPosition(p) == p <= Len(text)

\* String::replace_range(start..end, with) panics when start > end or
\* end > len; String::insert_str(idx, s) panics when idx > len.
ReplaceRangePanics(t, s, e) == s > e \/ e > Len(t)

ReplaceRange(t, s, e, with) == SubSeq(t, 1, s) \o with \o SubSeq(t, e + 1, Len(t))

InsertStrPanics(t, idx) == idx > Len(t)

InsertStr(t, idx, with) == SubSeq(t, 1, idx) \o with \o SubSeq(t, idx + 1, Len(t))

\* The text after the edit is applied, lines 83-99 (the match arms).
Applied(ed) ==
    CASE ed.e = "Update" -> ReplaceRange(text, ed.span.start, ed.span.end, ed.new_text)
      [] ed.e = "Insert" -> InsertStr(text, ed.position, ed.new_text)
      [] ed.e = "Delete" -> ReplaceRange(text, ed.span.start, ed.span.end, <<>>)

\* Parser::receive_edits, lines 80-101, when recv() yields an edit.
ReceiveEdits(ed) ==
    /\ outcome # "panic"
    /\ connected
    /\ edit' = ed
    /\ prev' = text
    /\ IF ed.e = "Insert"
       THEN IF ~IsValidPosition(ed.position)
            THEN outcome' = "PositionOutOfBounds" /\ text' = text
            ELSE IF InsertStrPanics(text, ed.position)
            THEN outcome' = "panic" /\ text' = text
            ELSE outcome' = "Ok" /\ text' = Applied(ed)
       ELSE IF ~IsValidSpan(ed.span)
            THEN outcome' = "SpanOutOfBounds" /\ text' = text
            ELSE IF ReplaceRangePanics(text, ed.span.start, ed.span.end)
            THEN outcome' = "panic" /\ text' = text
            ELSE outcome' = "Ok" /\ text' = Applied(ed)
    /\ Len(text') <= MaxTextLen
    /\ UNCHANGED connected
    /\ ParserOnly

\* Parser::receive_edits, line 81, when every Sender is gone: recv() is Err.
ReceiveLost ==
    /\ outcome # "panic"
    /\ ~connected
    /\ edit' = NoEdit
    /\ prev' = text
    /\ outcome' = "LostConnection"
    /\ UNCHANGED <<text, connected>>
    /\ ParserOnly

\* The last Sender of the channel is dropped.
SenderDropped ==
    /\ connected
    /\ connected' = FALSE
    /\ UNCHANGED <<text, edit, prev, outcome>>
    /\ ParserOnly

\* Parser::new, lines 65-71, and ParserState::new, line 42
ParserNew ==
    /\ text = <<>>
    /\ connected = TRUE
    /\ edit = NoEdit
    /\ prev = <<>>
    /\ outcome = "none"

ParserNext ==
    \/ \E ed \in Edits : ReceiveEdits(ed)
    \/ ReceiveLost
    \/ SenderDropped

----------------------------------------------------------------------------
(* The red overlay: RedNode {parent, green, offset} as parser.rs builds it, *)
(* over green nodes that carry a width.  tree.rs has neither the width nor *)
(* new_placeholder nor the descent to a child; these follow the           *)
(* specification of the tree store.                                        *)

\* The widths of the leaves stored.
Widths == {2, 3, 5}

\* GreenNode {tag, width, children}
WNode(tag, width, children) == [tag |-> tag, width |-> width, children |-> children]

\* alloc(tag, children, width): the id of an equal node if one is stored,
\* else the node is appended.
AllocW(arena, node) ==
    IF \E i \in 1..Len(arena) : arena[i] = node THEN arena ELSE Append(arena, node)

\* new_placeholder(width): a zero-child node tagged as a placeholder.
NewPlaceholder(arena, width) == AllocW(arena, WNode("Placeholder", width, <<>>))

\* The id alloc returns for a node of the arena.
IdOf(arena, node) == (CHOOSE i \in 1..Len(arena) : arena[i] = node) - 1

NoParent == [none |-> TRUE]

\* parser.rs, lines 37-41: RedNode { parent: None, green, offset: 0 }
RootRedAtOne(green) == [parent |-> NoParent, green |-> green, offset |-> 1]

RootRed(green) == [parent |-> NoParent, green |-> green, offset |-> 0]

\* The widths of children 0..k-1 added to acc, one sibling at a time.
RECURSIVE SkipSiblings(_, _, _, _)
SkipSiblings(arena, children, k, acc) ==
    IF k = 0 THEN acc
    ELSE SkipSiblings(arena, Tail(children), k - 1,
                      acc + arena[Head(children) + 1].width)

\* The RedNode of child k of red.
Child(arena, red, k) ==
    LET children == arena[red.green + 1].children
    IN  [parent |-> red,
         green |-> children[k + 1],
         offset |-> SkipSiblings(arena, children, k, red.offset)]

\* The sequences over S of length 1..n.
RECURSIVE Lists(_, _)
Lists(S, n) ==
    IF n = 0 THEN {}
    ELSE Lists(S, n - 1)
            \cup {<<x>> : x \in S}
            \cup {Append(l, x) : l \in Lists(S, n - 1), x \in S}

\* The node an engine stores over children already in the arena.
Inner(arena, children) ==
    WNode("rule", SumSeq([j \in 1..Len(children) |-> arena[children[j] + 1].width]),
          children)

\* The arena after ParserState::new (line 33) and the leaves.
LeafArena ==
    LET a0 == NewPlaceholder(<<>>, 0)
        a1 == AllocW(a0, WNode("rule", 2, <<>>))
        a2 == AllocW(a1, WNode("rule", 3, <<>>))
    IN  AllocW(a2, WNode("rule", 5, <<>>))

\* The arenas an engine has stored two more nodes into.
Arenas ==
    {AllocW(a, Inner(a, c2)) :
        a \in {AllocW(LeafArena, Inner(LeafArena, c1)) :
                  c1 \in Lists(1..(Len(LeafArena) - 1), MaxKids)},
        c2 \in Lists(1..Len(LeafArena), MaxKids)}

\* A traversal begins at the root id.
RedRoot(id) ==
    /\ ast' = RootRed(id)
    /\ path' = <<>>
    /\ from' = NoParent
    /\ UNCHANGED wnodes
    /\ RedOnly

\* The traversal descends to child k.
RedChild(k) ==
    /\ k < Len(wnodes[ast.green + 1].children)
    /\ ast' = Child(wnodes, ast, k)
    /\ path' = Append(path, k)
    /\ from' = ast
    /\ UNCHANGED wnodes
    /\ RedOnly

\* ParserState::new, lines 31-44
RedIdle ==
    /\ wnodes = NewPlaceholder(<<>>, 0)
    /\ ast = RootRed(IdOf(wnodes, WNode("Placeholder", 0, <<>>)))
    /\ path = <<>>
    /\ from = NoParent

RedNext ==
    \/ \E id \in 0..(Len(wnodes) - 1) : RedRoot(id)
    \/ \E k \in 0..(MaxKids - 1) : RedChild(k)

----------------------------------------------------------------------------
(* Specifications *)

\* One caller making a sequence of alloc calls.
InitArena ==
    /\ ArenaNew
    /\ MatchIdle
    /\ ParserNew
    /\ RedIdle
    /\ GrammarIdle
    /\ calls = [t \in Threads |-> IF t = 1 THEN MaxSeqCalls ELSE 0]

SpecArena == InitArena /\ [][ArenaNext]_vars

\* Several callers sharing the arena, one call each.
InitConc ==
    /\ ArenaNew
    /\ MatchIdle
    /\ ParserNew
    /\ RedIdle
    /\ GrammarIdle
    /\ calls = [t \in Threads |-> 1]

SpecConc == InitConc /\ [][ArenaNext]_vars

\* One matcher applied once to one state.
InitMatch ==
    /\ ArenaIdle
    /\ MatchNew
    /\ ParserNew
    /\ RedIdle
    /\ GrammarIdle

SpecMatch == InitMatch /\ [][MatchCall]_vars

\* The edit driver receiving edits until the channel is lost.
InitParser ==
    /\ ArenaIdle
    /\ MatchIdle
    /\ ParserNew
    /\ RedIdle
    /\ GrammarIdle

SpecParser == InitParser /\ [][ParserNext]_vars

\* One call of Grammar::new on one grammar.
InitGrammar ==
    /\ ArenaIdle
    /\ MatchIdle
    /\ ParserNew
    /\ RedIdle
    /\ GrammarNew

SpecGrammar == InitGrammar /\ [][GrammarNext]_vars

\* The steps of normalize.
NormalizeNext ==
    \/ HelperTerminal
    \/ HelperChoiceSequence
    \/ Collect
    \/ HelperReferenceOnStack
    \/ HelperReferenceProcessed
    \/ HelperReferenceNew
    \/ ReferenceEnd
    \/ HelperOptional
    \/ OptionalEnd
    \/ HelperMany
    \/ ManyEnd
    \/ HelperSome
    \/ SomeEnd
    \/ NormalizeReturn

\* The iterations of the while loop of undecidable_rule.
NullableNext == NullPass \/ NullDone

\* normalize and the nullability loop run on one thread and nothing in them
\* blocks: a step of theirs that can be taken is taken.
SpecGrammarFair ==
    SpecGrammar /\ WF_vars(NormalizeNext) /\ WF_vars(NullableNext)

\* Traversals of a tree the engine has stored.
InitRed ==
    /\ ArenaIdle
    /\ MatchIdle
    /\ ParserNew
    /\ GrammarIdle
    /\ wnodes \in Arenas
    /\ ast = RootRed(IdOf(wnodes, WNode("Placeholder", 0, <<>>)))
    /\ path = <<>>
    /\ from = NoParent

SpecRed == InitRed /\ [][RedNext]_vars

----------------------------------------------------------------------------
(* Claims about the arena *)

\* C1: hash-consing. After any sequence of alloc calls, two calls with
\* identical content (tag, ordered children) have returned the identical
\* GreenId, and the arena stores no two structurally equal nodes.
C1_HashConsing ==
    /\ \A a, b \in returned : a.node = b.node => a.id = b.id
    /\ \A i, j \in 1..Len(nodes) : nodes[i] = nodes[j] => i = j

\* A call has returned the id of a node stored by an earlier identical call.
C1_Witness ==
    \E t \in Threads : ret[t].id >= 0 /\ ~ret[t].fresh

\* C2: contents that are not structurally equal get distinct GreenIds, also
\* when both hash to the same bucket.
C2_DistinctIds ==
    \A a, b \in returned : a.node # b.node => a.id # b.id

\* Two stored contents with the same tag and the same bucket whose children
\* differ only in order, and two whose children differ in length.
C2_Witness ==
    /\ \E a, b \in returned :
          /\ a.node.rule_id = b.node.rule_id
          /\ Hash(a.node) = Hash(b.node)
          /\ Len(a.node.children) = 2
          /\ a.node.children[1] # a.node.children[2]
          /\ b.node.children = <<a.node.children[2], a.node.children[1]>>
    /\ \E a, b \in returned :
          /\ a.node.rule_id = b.node.rule_id
          /\ Hash(a.node) = Hash(b.node)
          /\ Len(a.node.children) # Len(b.node.children)

\* C3: allocation is confluent under concurrency. With several callers
\* sharing the arena, in every interleaving two callers never both reach the
\* append for equal content, and two callers that submitted structurally
\* equal content hold the same GreenId with exactly one node stored for it.
C3_Confluent ==
    \A t1, t2 \in Threads :
        t1 # t2 =>
            /\ ~(pc[t1] = "append" /\ pc[t2] = "append" /\ arg[t1] = arg[t2])
            /\ (ret[t1].id >= 0 /\ ret[t2].id >= 0 /\ ret[t1].node = ret[t2].node)
                  => /\ ret[t1].id = ret[t2].id
                     /\ Cardinality({i \in 1..Len(nodes) :
                                        nodes[i] = ret[t1].node}) = 1

\* Two different callers have submitted equal content and both returned.
C3_Witness ==
    \E t1, t2 \in Threads :
        /\ t1 # t2
        /\ ret[t1].id >= 0
        /\ ret[t2].id >= 0
        /\ ret[t1].node = ret[t2].node

----------------------------------------------------------------------------
(* Claims about the matchers *)

\* matches succeeds from (inp, pos) and leaves the position where it was.
ZeroWidthMatch(m, inp, pos) ==
    LET r == Matches(m, inp, pos) IN r.ok /\ r.position = pos

\* Every Repeat inside m has a range some count lies in (min <= max).
RECURSIVE RangesInhabited(_)
RangesInhabited(m) ==
    CASE m.mk \in {"alt", "seq"} -> RangesInhabited(m.a) /\ RangesInhabited(m.b)
      [] m.mk = "rep" -> RepeatMin(m.r) <= RepeatMax(m.r) /\ RangesInhabited(m.a)
      [] OTHER -> TRUE

\* C9 as stated: is_nullable() is true iff matches succeeds consuming zero
\* characters from every valid start state (every position of every input).
C9_Original ==
    mres # "none" =>
        (IsNullable(matcher) <=>
            \A inp \in Inputs : \A pos \in 0..Len(inp) :
                ZeroWidthMatch(matcher, inp, pos))

\* C9 amended: a matcher whose is_nullable() is false never succeeds without
\* consuming a character, from any position of any input; a matcher whose
\* is_nullable() is true succeeds consuming nothing on the empty input,
\* provided each of its Repeat ranges has min <= max.
C9_Nullable ==
    mres # "none" =>
        /\ ~IsNullable(matcher) => ~(mres = "true" /\ position = start)
        /\ (IsNullable(matcher) /\ RangesInhabited(matcher) /\ input = <<>>)
              => (mres = "true" /\ position = start)

\* A nullable combinator over Repeat has been applied to the empty input,
\* and a non-nullable one has matched part of a longer input.
C9_Witness ==
    /\ mres = "true"
    /\ matcher.mk = "rep"
    /\ matcher.a.mk = "seq"
    /\ IsNullable(matcher)
    /\ RangesInhabited(matcher)
    /\ input = <<>>

----------------------------------------------------------------------------
(* Claims about the edit driver *)

\* The span or position of the received edit lies inside the buffer as it
\* was when the call began.
EditInsideBuffer ==
    CASE edit.e = "Insert" -> edit.position <= Len(prev)
      [] edit.e \in {"Update", "Delete"} ->
            edit.span.start <= edit.span.end /\ edit.span.end <= Len(prev)
      [] OTHER -> TRUE

\* C10: receive_edits never panics; an edit whose span or position does not
\* lie inside the buffer (a span with start > end or start beyond the buffer
\* included) yields an error value and leaves the text unchanged, and a lost
\* channel yields LostConnection with the text unchanged.
C10_EditsValidated ==
    /\ outcome # "panic"
    /\ (outcome # "none" /\ ~EditInsideBuffer)
          => (outcome \in {"SpanOutOfBounds", "PositionOutOfBounds"} /\ text = prev)
    /\ (outcome # "none" /\ edit = NoEdit)
          => (outcome = "LostConnection" /\ text = prev)

----------------------------------------------------------------------------
(* Claims about grammar compilation *)

\* The nullability equations: Terminal = matcher.is_nullable, Choice = any,
\* Sequence = all, Reference(j) = flags[j]; a rule is its body.
RECURSIVE EqNullable(_, _)
EqNullable(node, flags) ==
    CASE node.n = "Terminal" -> IsNullable(node.m)
      [] node.n = "Choice" -> \E k \in 1..Len(node.cs) : EqNullable(node.cs[k], flags)
      [] node.n = "Sequence" -> \A k \in 1..Len(node.cs) : EqNullable(node.cs[k], flags)
      [] node.n = "Tagged" -> EqNullable(node.inner, flags)
      [] node.n = "Mu" -> flags[node.idx + 1]

\* The least solution of the equations: all rules re-evaluated at once from
\* the previous flags, as many times as there are rules, from all false.
RECURSIVE EqIterate(_, _)
EqIterate(k, flags) ==
    IF k = 0 THEN flags
    ELSE EqIterate(k - 1, [i \in 1..Len(rules) |-> EqNullable(rules[i], flags)])

LeastFixpoint == EqIterate(Len(rules), [i \in 1..Len(rules) |-> FALSE])

\* The rules a node can call before any input is consumed: every branch of
\* a Choice, the children of a Sequence up to and including the first one
\* that is not nullable, the target of a Reference.
RECURSIVE CallsAtStart(_, _)
CallsAtStart(node, flags) ==
    CASE node.n = "Terminal" -> {}
      [] node.n = "Choice" ->
            UNION {CallsAtStart(node.cs[k], flags) : k \in 1..Len(node.cs)}
      [] node.n = "Sequence" ->
            UNION {CallsAtStart(node.cs[k], flags) :
                      k \in {j \in 1..Len(node.cs) :
                                \A l \in 1..(j - 1) : EqNullable(node.cs[l], flags)}}
      [] node.n = "Tagged" -> CallsAtStart(node.inner, flags)
      [] node.n = "Mu" -> {node.idx}

RuleIndices == 0..(Len(rules) - 1)

\* The rules reachable from the set S by one or more non-consuming calls.
RECURSIVE CalledFrom(_, _)
CalledFrom(S, k) ==
    LET next == UNION {CallsAtStart(rules[i + 1], LeastFixpoint) : i \in S}
    IN  IF k = 0 THEN {} ELSE next \cup CalledFrom(next, k - 1)

\* Rule i can reach itself through non-consuming calls.
OnCycle(i) == i \in CalledFrom({i}, Len(rules))

HasCycle == \E i \in RuleIndices : OnCycle(i)

\* A ::= A | "a"
LeftRecursive ==
    /\ root = GReference(1)
    /\ defs[1] = GChoice(<<GReference(1), Lit_a>>)

\* A ::= "a" A | epsilon
RightRecursive ==
    /\ root = GReference(1)
    /\ defs[1] = GChoice(<<GSequence(<<Lit_a, GReference(1)>>), Epsilon>>)

\* C4: when some rule can reach itself through non-consuming calls,
\* Grammar::new returns UndecidableRule and no Grammar; A ::= A | "a" fails
\* with UndecidableRule("A"); a rule with itself as a Choice branch is rejected
\* whatever its other branches are.
C4_Undecidable ==
    phase = "done" =>
        /\ HasCycle => result.kind = "UndecidableRule"
        /\ LeftRecursive => result = UndecidableRule("A")
        /\ \A i \in RuleIndices :
              (/\ rules[i + 1].inner.n = "Choice"
               /\ \E k \in 1..Len(rules[i + 1].inner.cs) :
                     rules[i + 1].inner.cs[k] = Mu(i))
                 => result.kind = "UndecidableRule"
        /\ result.kind = "UndecidableRule" => DOMAIN result = {"kind", "name"}

\* A ::= A | "a" has been compiled.
C4_Witness ==
    /\ phase = "done"
    /\ LeftRecursive
    /\ result = UndecidableRule("A")

\* C5: a grammar whose non-consuming call graph has no cycle compiles;
\* A ::= "a" A | epsilon compiles and A is computed nullable.
C5_Decidable ==
    phase = "done" =>
        /\ ~HasCycle => result.kind = "Ok"
        /\ RightRecursive =>
              /\ result.kind = "Ok"
              /\ nullable[rule_map[1] + 1]

\* A ::= "a" A | epsilon has been compiled.
C5_Witness ==
    /\ phase = "done"
    /\ RightRecursive
    /\ result.kind = "Ok"
    /\ Len(rules) = 1

\* C6: each rule handle has exactly one rule-table index, and every
\* Reference to it normalizes to the back-reference with that index, whether
\* met while the rule is being expanded, after it, or on another path.
C6_RuleUnification ==
    /\ \A a, b \in refLog : a.rule = b.rule => a.idx = b.idx
    /\ \A a \in refLog :
          /\ rule_map[a.rule] = a.idx
          /\ tags[a.idx + 1] = HandleName(a.rule)
    /\ \A h1, h2 \in Handles :
          (rule_map[h1] # -1 /\ rule_map[h1] = rule_map[h2]) => h1 = h2
    /\ \A h \in Handles :
          Cardinality({i \in 1..Len(tags) : tags[i] = HandleName(h)})
              = (IF rule_map[h] = -1 THEN 0 ELSE 1)

\* One handle has been referenced in all three ways.
C6_Witness ==
    /\ phase = "done"
    /\ \E h \in Handles :
          \A how \in {"new", "on stack", "processed"} :
              \E a \in refLog : a.rule = h /\ a.how = how

\* C7 as stated: many(x) is computed nullable and some(x) is computed not
\* nullable, whether or not x is nullable.
C7_Original ==
    phase \in {"cycle", "done"} =>
        \A e \in sugarLog :
            /\ e.kind = "Many" => GrammarIsNullable(e.out, nullable)
            /\ e.kind = "Some" => ~GrammarIsNullable(e.out, nullable)

\* C7 amended: many(x) is computed nullable for every x; some(x) is computed
\* nullable exactly when x is.
C7_ManySome ==
    phase \in {"cycle", "done"} =>
        \A e \in sugarLog :
            /\ e.kind = "Many" => GrammarIsNullable(e.out, nullable)
            /\ e.kind = "Some" =>
                  (GrammarIsNullable(e.out, nullable)
                      <=> GrammarIsNullable(e.inner, nullable))

\* A some(x) with x nullable, a some(x) with x not nullable, and a many(x)
\* have been normalized and the flags computed.
C7_Witness ==
    /\ phase = "done"
    /\ \E e \in sugarLog : e.kind = "Some" /\ GrammarIsNullable(e.inner, nullable)
    /\ \E e \in sugarLog : e.kind = "Some" /\ ~GrammarIsNullable(e.inner, nullable)
    /\ \E e \in sugarLog : e.kind = "Many"

\* C8: when the nullability pass stops, each flag equals its equation under
\* the final flags, the flags are the least such solution, and one more pass
\* changes nothing.
C8_LeastFixpoint ==
    phase \in {"cycle", "done"} =>
        /\ \A i \in 1..Len(rules) : nullable[i] = EqNullable(rules[i], nullable)
        /\ nullable = LeastFixpoint
        /\ PassFrom(0, nullable) = nullable

\* The pass has stopped after setting flags in two passes, on a table with
\* nullable and non-nullable rules.
C8_Witness ==
    /\ phase = "done"
    /\ passes >= 3
    /\ \E i \in 1..Len(rules) : nullable[i]
    /\ \E i \in 1..Len(rules) : ~nullable[i]

\* A Reference to a handle that is being expanded is about to be normalized.
ReachedAgain ==
    /\ phase = "normalize"
    /\ work # <<>>
    /\ Top.op = "helper"
    /\ Top.g.g = "Reference"
    /\ Top.g.rule \in stack

\* C13: normalization terminates, also on self-referential and mutually
\* recursive rules. A handle under expansion already has its slot and its
\* rule_map entry, each handle's function is invoked at most once, and a
\* Reference that reaches a handle under expansion yields the back-reference
\* to its slot without invoking the function or adding a rule.
C13_Terminates ==
    /\ [](\A h \in Handles : invoked[h] <= 1)
    /\ [](\A h \in stack : rule_map[h] >= 0 /\ rule_map[h] < Len(rules))
    /\ [][ReachedAgain =>
            /\ invoked' = invoked
            /\ rules' = rules
            /\ vals' = Append(vals, Mu(rule_map[Top.g.rule]))]_vars
    /\ <>(phase # "normalize")

\* Normalization has returned on a grammar in which two handles were each
\* reached again while under expansion, both invoked once.
C13_Witness ==
    /\ phase = "done"
    /\ \A h \in Handles : invoked[h] = 1
    /\ \E a, b \in refLog :
          /\ a.how = "on stack"
          /\ b.how = "on stack"
          /\ a.rule # b.rule

\* C14: the rule named in UndecidableRule(name) lies on a non-consumption
\* cycle: it can call itself, directly or transitively, without consuming
\* input.
C14_ReportedOnCycle ==
    (phase = "done" /\ result.kind = "UndecidableRule") =>
        /\ result.name = tags[ci + 1]
        /\ OnCycle(ci)

\* C15: the nullability pass is monotone and terminates. It starts from all
\* flags false, a flag only changes from false to true, and over N rules the
\* loop makes at most N + 1 passes and then stops.
C15_Monotone ==
    /\ []((phase = "nullable" /\ passes = 0) =>
            /\ Len(nullable) = Len(rules)
            /\ \A i \in 1..Len(nullable) : ~nullable[i])
    /\ [][phase = "nullable" =>
            /\ Len(nullable') = Len(nullable)
            /\ \A i \in 1..Len(nullable) : nullable[i] => nullable'[i]]_vars
    /\ [](passes <= Len(rules) + 1)
    /\ (phase = "nullable") ~> (phase = "cycle")

\* The loop has stopped after N + 1 passes over N >= 2 rules, each pass but
\* the last having set a flag.
C15_Witness ==
    /\ phase = "done"
    /\ Len(rules) >= 2
    /\ passes = Len(rules) + 1
    /\ \A i \in 1..Len(rules) : nullable[i]

\* The back-reference indices that occur in a normalized node.
RECURSIVE BackRefs(_)
BackRefs(node) ==
    CASE node.n = "Terminal" -> {}
      [] node.n \in {"Choice", "Sequence"} ->
            UNION {BackRefs(node.cs[k]) : k \in 1..Len(node.cs)}
      [] node.n = "Tagged" -> BackRefs(node.inner)
      [] node.n = "Mu" -> {node.idx}

\* C16: when normalization has returned, every slot i of the rule table
\* holds a body tagged with i in place of the placeholder written when the
\* slot was reserved, every back-reference in the table and in the root node
\* is the index of a slot, and there is one name per slot.
C16_NoPlaceholder ==
    phase \in {"nullable", "cycle", "done"} =>
        /\ \A i \in 1..Len(rules) :
              /\ rules[i] # NTerminal(EndOfInput)
              /\ rules[i].n = "Tagged"
              /\ rules[i].idx = i - 1
              /\ BackRefs(rules[i]) \subseteq 0..(Len(rules) - 1)
        /\ BackRefs(gnodes.some) \subseteq 0..(Len(rules) - 1)
        /\ Len(tags) = Len(rules)
        /\ stack = {}

\* Normalization has returned on many(A) with A ::= many(some(x)): the slots
\* of a named rule and of three nested synthesized rules are filled.
C16_Witness ==
    /\ phase = "nullable"
    /\ root = GMany(GReference(1))
    /\ defs[1].g = "Many"
    /\ defs[1].x.g = "Some"
    /\ Len(rules) = 5
    /\ \A i \in 1..Len(rules) : rules[i].n = "Tagged"

\* C17: a matcher whose matches returns false leaves the position where it
\* was, whatever the matcher, and the position stays within 0..=input length.
C17_FailureRestores ==
    mres # "none" =>
        /\ position \in 0..Len(input)
        /\ mres = "false" => position = start

\* A step of the arena as C12 allows it.
AppendOnlyStep ==
    /\ \/ nodes' = nodes
       \/ /\ Len(nodes') = Len(nodes) + 1
          /\ SubSeq(nodes', 1, Len(nodes)) = nodes
    /\ \A r \in returned' :
          /\ r.id < Len(nodes')
          /\ nodes'[r.id + 1] = r.node
    /\ \A r \in returned : nodes'[r.id + 1] = nodes[r.id + 1]
    /\ \A t \in Threads :
          (pc[t] # "idle" /\ pc'[t] = "idle") =>
              IF ret'[t].fresh
              THEN /\ nodes' = Append(nodes, ret'[t].node)
                   /\ ret'[t].id = Len(nodes)
              ELSE nodes' = nodes
    /\ nodes' # nodes =>
          \E t \in Threads : pc[t] # "idle" /\ pc'[t] = "idle" /\ ret'[t].fresh

\* C12: the arena is append-only and its nodes immutable. Each alloc stores
\* nothing (dedup hit) or appends exactly one node at the end, and every
\* GreenId returned so far stays valid and get_node on it returns the
\* content it was returned for.
C12_AppendOnly == [][AppendOnlyStep]_vars

\* A call has hit a node returned earlier, after later nodes were appended
\* behind it.
C12_Witness ==
    /\ Len(nodes) >= 3
    /\ \E t \in Threads :
          /\ ret[t].id >= 0
          /\ ~ret[t].fresh
          /\ ret[t].id < Len(nodes) - 1
          /\ GetNode(ret[t].id) = ret[t].node

----------------------------------------------------------------------------
(* Claims about the red overlay *)

\* The widths of the green nodes of the children of a red node.
SiblingWidths(red) ==
    [j \in 1..Len(wnodes[red.green + 1].children) |->
        wnodes[wnodes[red.green + 1].children[j] + 1].width]

====
